---- MODULE Spec2Model ----
(***************************************************************************)
(* Model of the onboarding workflow of src/src/main.py: the two store      *)
(* queries (find_new_joiners_data_engineers, find_senior_mentor), the      *)
(* five-node employee graph and the run_onboarding_for_new_joiners loop,   *)
(* with the Gmail / Calendar / Asana adapters of src/src/apis.             *)
(***************************************************************************)
EXTENDS Integers, Sequences, FiniteSets, TLC

(***************************************************************************)
(* Bounds of the model.                                                    *)
(***************************************************************************)
\* rows of the employees table in the workflow specification
MaxRows == 4
\* rows of the employees table in the query specification
QueryRows == 3
\* collaborator faults injected in one run
MaxFaults == 1
\* rows of the employees table in the clock specification
ClockRows == 3
\* ticks the wall clock may advance during one run (one tick = one day)
MaxTime == 1
\* calendar day number of the wall clock at tick 0
Today0 == 20

\* default of joined_since_days
DefaultWindow == 14
\* days between the schedule step and the intro call
MeetingDelayDays == 7
\* start and end hour of the intro call
MeetingStartHour == 10
MeetingEndHour == 11

(***************************************************************************)
(* Values.                                                                 *)
(***************************************************************************)
\* Python's None / SQL NULL
None == [none |-> TRUE]

Names == <<"Kaushal", "Asha", "Neeraj", "Sneha", "Karan", "Meera", "Ravi">>
Emails == <<"kaushal@example.com", "asha@example.com", "neeraj@example.com",
            "sneha@example.com", "karan@example.com", "meera@example.com",
            "ravi@example.com">>

Roles == {"Data Engineer", "Backend Engineer"}
Levels == {"junior", "senior"}
Locations == {"Bengaluru", "Pune"}
\* join dates around the cutoffs of the two windows: just outside the default
\* window, on its boundary, and on the boundary of the short window
JoinDates == {Today0 - DefaultWindow - 1, Today0 - DefaultWindow,
              Today0 - (DefaultWindow \div 2)}
Windows == {DefaultWindow, DefaultWindow \div 2}

\* the date the wall clock shows at tick t (dt.date.today())
Date(t) == Today0 + t

\* a row of the employees table; id is the AUTOINCREMENT rowid
Row(i, role, level, loc, joined) ==
  [id |-> i, name |-> Names[i], email |-> Emails[i], role |-> role,
   department |-> "Data Platform", date_joined |-> joined, location |-> loc,
   level |-> level,
   manager_email |-> IF level = "senior" THEN None ELSE [addr |-> "lead.de@example.com"]]

RowOf(i, p) == Row(i, p[1], p[2], p[3], p[4])

\* all tables of exactly n rows whose rows are drawn from the profiles ps
RECURSIVE Tables(_, _)
Tables(n, ps) ==
  IF n = 0 THEN {<<>>}
  ELSE {Append(t, RowOf(n, p)) : t \in Tables(n - 1, ps), p \in ps}

TablesUpTo(n, ps) == UNION {Tables(k, ps) : k \in 0..n}

(***************************************************************************)
(* Query helpers (main.py:85-116).                                         *)
(***************************************************************************)
\* cutoff = dt.date.today() - dt.timedelta(days=joined_since_days)
Cutoff(today, days) == today - days

NewJoinerStrict(r, cutoff) ==
  /\ r.role = "Data Engineer"
  /\ r.date_joined > cutoff
  /\ r.level = "junior"

\* WHERE role = 'Data Engineer' AND date(date_joined) >= date(?) AND level = 'junior'
NewJoinerWhere(r, cutoff) ==
  /\ r.role = "Data Engineer"
  /\ r.date_joined >= cutoff
  /\ r.level = "junior"

\* SELECT * FROM employees WHERE ... : a scan of the table in rowid order
RECURSIVE ScanJoiners(_, _)
ScanJoiners(rows, cutoff) ==
  IF rows = <<>> THEN <<>>
  ELSE IF NewJoinerWhere(Head(rows), cutoff)
       THEN <<Head(rows)>> \o ScanJoiners(Tail(rows), cutoff)
       ELSE ScanJoiners(Tail(rows), cutoff)

find_new_joiners_data_engineers(table, today, joined_since_days) ==
  ScanJoiners(table, Cutoff(today, joined_since_days))

\* WHERE role = 'Data Engineer' AND level = 'senior'
SeniorWhere(r) == r.role = "Data Engineer" /\ r.level = "senior"

RowsOf(table) == {table[i] : i \in 1..Len(table)}

\* ORDER BY date(date_joined) ASC LIMIT 1: a row of least join date; SQL leaves
\* the order among rows of equal sort key open, so every such row is a
\* possible first row
OrderByJoinedLimit1(rows) ==
  {r \in rows : \A o \in rows : r.date_joined <= o.date_joined}

MentorAnywhere(table, preferred_location) ==
  LET all == {r \in RowsOf(table) : SeniorWhere(r)}
  IN IF all # {} THEN OrderByJoinedLimit1(all) ELSE {None}

\* the set of values find_senior_mentor can return
find_senior_mentor(table, preferred_location) ==
  LET local == {r \in RowsOf(table) :
                  SeniorWhere(r) /\ r.location = preferred_location}
      all == {r \in RowsOf(table) : SeniorWhere(r)}
  IN IF local # {} THEN OrderByJoinedLimit1(local)
     ELSE IF all # {} THEN OrderByJoinedLimit1(all)
     ELSE {None}


(***************************************************************************)
(* State.                                                                  *)
(***************************************************************************)
VARIABLES
  db,                 \* rows of the employees table (data/employees.db)
  now,                \* wall clock, in ticks since the model's start
  pc,                 \* position of run_onboarding_for_new_joiners
  joined_since_days,  \* its argument
  new_joiners,        \* result of the eligibility query
  idx,                \* position of the for loop in new_joiners
  state,              \* EmpState of the employee being processed
  successes,          \* local counter of the loop
  failures,           \* local list of the loop
  exc,                \* the exception in flight when pc = "except"
  result,             \* what the function returned to its caller
  world,              \* what the external services hold: mail, invites, tasks, events
  calls,              \* history of the collaborator calls made by the graph nodes
  steps,              \* history of the graph nodes executed
  q                   \* last call and result of the query specification

vars == <<db, now, pc, joined_since_days, new_joiners, idx, state, successes,
          failures, exc, result, world, calls, steps, q>>

\* the collaborator calls so far that did not succeed
Faults == Cardinality({i \in DOMAIN calls : calls[i].outcome # "ok"})

\* how many further faults may be injected
Budget == MaxFaults - Faults

\* the row of the employee being processed
emp == state.employee

(***************************************************************************)
(* EmpState and the log (main.py:179-192).                                 *)
(***************************************************************************)
\* state[key] = value on a TypedDict with total=False
SetField(st, key, value) ==
  [k \in DOMAIN st \cup {key} |-> IF k = key THEN value ELSE st[k]]

EmpStateAllFields(e) ==
  [employee |-> e, email_body |-> None, email_result |-> None, asana_task |-> None,
   mentor |-> None, calendar_event |-> None, logs |-> <<>>]

\* state: EmpState = {"employee": emp, "logs": []}
EmpState(e) == [employee |-> e, logs |-> <<>>]

prepend_log(st, t, msg) ==
  SetField(st, "logs", <<[ts |-> t, msg |-> msg]>> \o st.logs)

\* logs.append(f"{dt.datetime.now().isoformat(timespec='seconds')} | {msg}")
append_log(st, t, msg) ==
  SetField(st, "logs", Append(st.logs, [ts |-> t, msg |-> msg]))

(***************************************************************************)
(* Adapters (gmail_apis.py, asana_apis.py): what each returns for an       *)
(* outcome of the remote call. "ok" is a normal reply; "HttpError" and     *)
(* "ApiException" are the service's own error, which the adapter catches;  *)
(* any other exception leaves the adapter and is modelled by the raise     *)
(* actions below.                                                          *)
(***************************************************************************)
\* chain.invoke({...}).strip(): the prose is opaque, its inputs are kept
generate_welcome_email_content(e) ==
  [html |-> TRUE, name |-> e.name, role |-> e.role, team |-> e.department,
   start_date |-> e.date_joined,
   manager_email |-> IF e.manager_email = None THEN [addr |-> "hr@company.com"]
                     ELSE e.manager_email,
   location |-> e.location]

\* send_message: sent_message, or None on HttpError
send_message(outcome, message) ==
  IF outcome = "ok" THEN [id |-> "sent", to |-> message.to] ELSE None

\* create_task: response, or None on ApiException
create_task(outcome, task) ==
  IF outcome = "ok" THEN [gid |-> "task", name |-> task.name] ELSE None

\* schedule_calendar_event: event, or None on HttpError
schedule_calendar_event(outcome, event) ==
  IF outcome = "ok" THEN [id |-> "event", requestId |-> event.requestId] ELSE None

\* the message node_send_email hands to send_gmail
WelcomeMessage(e, body) ==
  [sender |-> "me", to |-> e.email,
   subject |-> <<"Welcome to the team,", e.name>>, body |-> body]

\* the task node_asana_task hands to create_onboarding_tasks
OnboardingTask(e) ==
  [name |-> <<"Onboarding for", e.name, "- Data Engineer">>, assignee |-> e.email]

IntroCallTokenByDate(e, mentor, today) ==
  LET next_week == today + MeetingDelayDays
  IN [summary |-> <<"Intro chat:", e.name, mentor.name>>,
      location |-> "Google Meet",
      start |-> [date |-> next_week, hour |-> MeetingStartHour],
      end |-> [date |-> next_week, hour |-> MeetingEndHour],
      attendees |-> <<e.email, mentor.email>>,
      timezone |-> "Asia/Kolkata",
      reminders |-> <<[method |-> "popup", minutes |-> 30]>>,
      requestId |-> <<"mentor", next_week>>]

\* the event node_schedule_intro_call hands to schedule_calendar_event
IntroCall(e, mentor, today) ==
  LET next_week == today + MeetingDelayDays
  IN [summary |-> <<"Intro chat:", e.name, mentor.name>>,
      location |-> "Google Meet",
      start |-> [date |-> next_week, hour |-> MeetingStartHour],
      end |-> [date |-> next_week, hour |-> MeetingEndHour],
      attendees |-> <<e.email, mentor.email>>,
      timezone |-> "Asia/Kolkata",
      reminders |-> <<[method |-> "popup", minutes |-> 30]>>,
      requestId |-> <<"mentor", e.id, next_week>>]

(***************************************************************************)
(* The employee graph (main.py:273-289).                                   *)
(***************************************************************************)
EntryPoint == "generate_email"

EdgeSkipsTask(node) ==
  CASE node = "generate_email" -> "send_email"
    [] node = "send_email" -> "find_mentor"
    [] node = "asana_task" -> "find_mentor"
    [] node = "find_mentor" -> "schedule_intro_call"
    [] node = "schedule_intro_call" -> "END"

\* g.add_edge(...)
Edge(node) ==
  CASE node = "generate_email" -> "send_email"
    [] node = "send_email" -> "asana_task"
    [] node = "asana_task" -> "find_mentor"
    [] node = "find_mentor" -> "schedule_intro_call"
    [] node = "schedule_intro_call" -> "END"

\* state[...] = ... : the field each node populates
Populates(node) ==
  CASE node = "generate_email" -> "email_body"
    [] node = "send_email" -> "email_result"
    [] node = "asana_task" -> "asana_task"
    [] node = "find_mentor" -> "mentor"
    [] node = "schedule_intro_call" -> "calendar_event"

\* state[...] on the right-hand side, and state.get("logs") of append_log:
\* the fields each node reads
Reads(node) ==
  CASE node = "generate_email" -> {"employee", "logs"}
    [] node = "send_email" -> {"employee", "email_body", "logs"}
    [] node = "asana_task" -> {"employee", "logs"}
    [] node = "find_mentor" -> {"employee", "logs"}
    [] node = "schedule_intro_call" -> {"employee", "mentor", "logs"}

\* bookkeeping of one node execution and of one collaborator call
Step(name, outcome) == [emp |-> idx, step |-> name, outcome |-> outcome]
Call(collab, outcome) == [emp |-> idx, collab |-> collab, outcome |-> outcome]
\* bookkeeping of a collaborator call together with the body it was sent
Request(collab, outcome, body) ==
  [emp |-> idx, collab |-> collab, outcome |-> outcome, request |-> body]

\* an exception leaves the node: compiled.invoke re-raises it to the loop
Raise(msg) ==
  /\ exc' = msg
  /\ pc' = "except"


(***************************************************************************)
(* The orchestration loop (main.py:300-333).                               *)
(***************************************************************************)
\* the summary returned when the eligibility query finds nobody
EmptySummaryCountsTable ==
  [processed |-> Len(db), successes |-> 0, failures |-> <<>>,
   message |-> "No new Data Engineers found"]

EmptySummary ==
  [processed |-> 0, successes |-> 0, failures |-> <<>>,
   message |-> "No new Data Engineers found"]

\* f"{emp['email']}: {e}"
Descriptor(e, reason) == [email |-> e.email, reason |-> reason]

RecordFailureFirst(fs, e, reason) == <<Descriptor(e, reason)>> \o fs

\* failures.append(f"{emp['email']}: {e}")
RecordFailure(fs, e, reason) == Append(fs, Descriptor(e, reason))

\* new_joiners = find_new_joiners_data_engineers(...); if not new_joiners: return {...}
Start ==
  /\ pc = "start"
  /\ \E w \in Windows :
       LET found == find_new_joiners_data_engineers(db, Date(now), w)
       IN /\ joined_since_days' = w
          /\ new_joiners' = found
          /\ IF found = <<>>
             THEN /\ result' = EmptySummary
                  /\ pc' = "done"
             ELSE /\ result' = result
                  /\ pc' = "loop"
  /\ UNCHANGED <<db, now, idx, state, successes, failures, exc, world, calls, steps, q>>

StartStoreErrorSwallowed ==
  /\ pc = "start"
  /\ \E w \in Windows : joined_since_days' = w
  /\ result' = EmptySummary
  /\ pc' = "done"
  /\ UNCHANGED <<db, now, new_joiners, idx, state, successes, failures, exc,
                 world, calls, steps, q>>

\* the store cannot be read: the sqlite3 error leaves the function
StartStoreError ==
  /\ pc = "start"
  /\ \E w \in Windows : joined_since_days' = w
  /\ pc' = "error"
  /\ UNCHANGED <<db, now, new_joiners, idx, state, successes, failures, exc,
                 result, world, calls, steps, q>>

\* for emp in new_joiners: state = {"employee": emp, "logs": []}; compiled.invoke(state)
LoopInvoke ==
  /\ pc = "loop"
  /\ idx <= Len(new_joiners)
  /\ state' = EmpState(new_joiners[idx])
  /\ pc' = EntryPoint
  /\ UNCHANGED <<db, now, joined_since_days, new_joiners, idx, successes, failures,
                 exc, result, world, calls, steps, q>>

\* compiled.invoke returned: successes += 1
LoopSuccess ==
  /\ pc = "END"
  /\ successes' = successes + 1
  /\ idx' = idx + 1
  /\ pc' = "loop"
  /\ UNCHANGED <<db, now, joined_since_days, new_joiners, state, failures, exc,
                 result, world, calls, steps, q>>

LoopExceptAborts ==
  /\ pc = "except"
  /\ failures' = RecordFailure(failures, emp, exc)
  /\ idx' = Len(new_joiners) + 1
  /\ exc' = None
  /\ pc' = "loop"
  /\ UNCHANGED <<db, now, joined_since_days, new_joiners, state, successes, result,
                 world, calls, steps, q>>

LoopExceptRollsBack ==
  /\ pc = "except"
  /\ failures' = RecordFailure(failures, emp, exc)
  /\ world' = [mail |-> SelectSeq(world.mail, LAMBDA m : m.to # emp.email),
               invites |-> SelectSeq(world.invites, LAMBDA a : a # emp.email),
               tasks |-> SelectSeq(world.tasks, LAMBDA t : t.assignee # emp.email),
               events |-> world.events]
  /\ idx' = idx + 1
  /\ exc' = None
  /\ pc' = "loop"
  /\ UNCHANGED <<db, now, joined_since_days, new_joiners, state, successes, result,
                 calls, steps, q>>

\* except Exception as e: failures.append(...), then the next employee
LoopExcept ==
  /\ pc = "except"
  /\ failures' = RecordFailure(failures, emp, exc)
  /\ idx' = idx + 1
  /\ exc' = None
  /\ pc' = "loop"
  /\ UNCHANGED <<db, now, joined_since_days, new_joiners, state, successes, result,
                 world, calls, steps, q>>

\* return {"processed": len(new_joiners), "successes": ..., "failures": ...}
Return ==
  /\ pc = "loop"
  /\ idx > Len(new_joiners)
  /\ result' = [processed |-> Len(new_joiners), successes |-> successes,
                failures |-> failures]
  /\ pc' = "done"
  /\ UNCHANGED <<db, now, joined_since_days, new_joiners, idx, state, successes,
                 failures, exc, world, calls, steps, q>>

\* the wall clock advances while the run is under way
Tick ==
  /\ pc \notin {"done", "error"}
  /\ now < MaxTime
  /\ now' = now + 1
  /\ UNCHANGED <<db, pc, joined_since_days, new_joiners, idx, state, successes,
                 failures, exc, result, world, calls, steps, q>>


(***************************************************************************)
(* Graph nodes (main.py:197-268). Each node is one step of the run: it     *)
(* calls its collaborator, stores the result in the state and appends to   *)
(* the log, or lets the collaborator's exception through.                  *)
(***************************************************************************)
\* the errors the adapters catch, while the fault budget lasts
Caught(err) == IF Budget > 0 THEN {"ok", err} ELSE {"ok"}

node_generate_email ==
  /\ pc = "generate_email"
  /\ state' = append_log(
                SetField(state, "email_body", generate_welcome_email_content(emp)),
                now, <<"Generated email for", emp.email>>)
  /\ calls' = Append(calls, Call("text_generator", "ok"))
  /\ steps' = Append(steps, Step("generate_email", "ok"))
  /\ pc' = Edge("generate_email")
  /\ UNCHANGED <<db, now, joined_since_days, new_joiners, idx, successes, failures,
                 exc, result, world, q>>

\* chain.invoke raises: nothing in generate_welcome_email_content catches it
node_generate_email_raises ==
  /\ pc = "generate_email"
  /\ Budget > 0
  /\ calls' = Append(calls, Call("text_generator", "raise"))
  /\ steps' = Append(steps, Step("generate_email", "raised"))
  /\ Raise(<<"text generation failed">>)
  /\ UNCHANGED <<db, now, joined_since_days, new_joiners, idx, state, successes,
                 failures, result, world, q>>

node_send_email ==
  /\ pc = "send_email"
  /\ \E o \in Caught("HttpError") :
       LET message == WelcomeMessage(emp, state.email_body)
       IN /\ world' = IF o = "ok" THEN [world EXCEPT !.mail = Append(@, message)]
                      ELSE world
          /\ state' = append_log(
                        SetField(state, "email_result", send_message(o, message)),
                        now, <<"Sent welcome email to", emp.email>>)
          /\ calls' = Append(calls, Call("message_delivery", o))
          /\ steps' = Append(steps, Step("send_email", IF o = "ok" THEN "ok" ELSE "failed"))
  /\ pc' = Edge("send_email")
  /\ UNCHANGED <<db, now, joined_since_days, new_joiners, idx, successes, failures,
                 exc, result, q>>

\* get_gmail_service or execute() raises something other than HttpError
node_send_email_raises ==
  /\ pc = "send_email"
  /\ Budget > 0
  /\ calls' = Append(calls, Call("message_delivery", "raise"))
  /\ steps' = Append(steps, Step("send_email", "raised"))
  /\ Raise(<<"message delivery failed">>)
  /\ UNCHANGED <<db, now, joined_since_days, new_joiners, idx, state, successes,
                 failures, result, world, q>>

\* create_onboarding_tasks: invite_user_to_workspace, then create_task
node_asana_task ==
  /\ pc = "asana_task"
  /\ \E oi \in Caught("ApiException"), ot \in Caught("ApiException") :
       LET task == OnboardingTask(emp)
       IN /\ Cardinality({"invite", "task"} \ ({"invite" : x \in {oi} \cap {"ok"}}
                            \cup {"task" : x \in {ot} \cap {"ok"}})) <= Budget
          /\ world' = [world EXCEPT
                         !.invites = IF oi = "ok" THEN Append(@, emp.email) ELSE @,
                         !.tasks = IF ot = "ok" THEN Append(@, task) ELSE @]
          /\ state' = append_log(
                        SetField(state, "asana_task", create_task(ot, task)),
                        now, <<"Created Asana task for", emp.email>>)
          /\ calls' = calls \o <<Call("task_tracker_invite", oi),
                                 Call("task_tracker_create", ot)>>
          /\ steps' = Append(steps, Step("asana_task", IF ot = "ok" THEN "ok" ELSE "failed"))
  /\ pc' = Edge("asana_task")
  /\ UNCHANGED <<db, now, joined_since_days, new_joiners, idx, successes, failures,
                 exc, result, q>>

\* add_user_for_workspace raises something other than ApiException
node_asana_task_invite_raises ==
  /\ pc = "asana_task"
  /\ Budget > 0
  /\ calls' = Append(calls, Call("task_tracker_invite", "raise"))
  /\ steps' = Append(steps, Step("asana_task", "raised"))
  /\ Raise(<<"workspace invite failed">>)
  /\ UNCHANGED <<db, now, joined_since_days, new_joiners, idx, state, successes,
                 failures, result, world, q>>

\* the invite is made, then tasks_api.create_task raises something other than ApiException
node_asana_task_create_raises ==
  /\ pc = "asana_task"
  /\ Budget > 0
  /\ world' = [world EXCEPT !.invites = Append(@, emp.email)]
  /\ calls' = calls \o <<Call("task_tracker_invite", "ok"),
                         Call("task_tracker_create", "raise")>>
  /\ steps' = Append(steps, Step("asana_task", "raised"))
  /\ Raise(<<"task creation failed">>)
  /\ UNCHANGED <<db, now, joined_since_days, new_joiners, idx, state, successes,
                 failures, result, q>>

\* if not mentor
MentorMissing(mentor) == mentor = None

node_find_mentor ==
  /\ pc = "find_mentor"
  /\ \E mentor \in find_senior_mentor(db, emp.location) :
       /\ ~MentorMissing(mentor)
       /\ state' = append_log(SetField(state, "mentor", mentor), now,
                              <<"Selected mentor", mentor.name, "for", emp.email>>)
  /\ calls' = Append(calls, Call("mentor_lookup", "ok"))
  /\ steps' = Append(steps, Step("find_mentor", "ok"))
  /\ pc' = Edge("find_mentor")
  /\ UNCHANGED <<db, now, joined_since_days, new_joiners, idx, successes, failures,
                 exc, result, world, q>>

\* raise RuntimeError(f"No senior mentor available for {emp['name']}")
node_find_mentor_none ==
  /\ pc = "find_mentor"
  /\ \E mentor \in find_senior_mentor(db, emp.location) : MentorMissing(mentor)
  /\ calls' = Append(calls, Call("mentor_lookup", "ok"))
  /\ steps' = Append(steps, Step("find_mentor", "raised"))
  /\ Raise(<<"No senior mentor available for", emp.name>>)
  /\ UNCHANGED <<db, now, joined_since_days, new_joiners, idx, state, successes,
                 failures, result, world, q>>

\* the store cannot be read: the sqlite3 error leaves find_senior_mentor
node_find_mentor_raises ==
  /\ pc = "find_mentor"
  /\ Budget > 0
  /\ calls' = Append(calls, Call("mentor_lookup", "raise"))
  /\ steps' = Append(steps, Step("find_mentor", "raised"))
  /\ Raise(<<"employee store unavailable">>)
  /\ UNCHANGED <<db, now, joined_since_days, new_joiners, idx, state, successes,
                 failures, result, world, q>>

node_schedule_intro_call ==
  /\ pc = "schedule_intro_call"
  /\ \E o \in Caught("HttpError") :
       LET event == IntroCall(emp, state.mentor, Date(now))
       IN /\ world' = IF o = "ok" THEN [world EXCEPT !.events = Append(@, event)]
                      ELSE world
          /\ state' = append_log(
                        SetField(state, "calendar_event", schedule_calendar_event(o, event)),
                        now, <<"Scheduled mentor call for", emp.email>>)
          /\ calls' = Append(calls, Request("scheduler", o, event))
          /\ steps' = Append(steps, Step("schedule_intro_call",
                                         IF o = "ok" THEN "ok" ELSE "failed"))
  /\ pc' = Edge("schedule_intro_call")
  /\ UNCHANGED <<db, now, joined_since_days, new_joiners, idx, successes, failures,
                 exc, result, q>>

\* get_calendar_service or execute() raises something other than HttpError
node_schedule_intro_call_raises ==
  /\ pc = "schedule_intro_call"
  /\ Budget > 0
  /\ calls' = Append(calls, Call("scheduler", "raise"))
  /\ steps' = Append(steps, Step("schedule_intro_call", "raised"))
  /\ Raise(<<"scheduling failed">>)
  /\ UNCHANGED <<db, now, joined_since_days, new_joiners, idx, state, successes,
                 failures, result, world, q>>

(***************************************************************************)
(* The workflow specification: one run of run_onboarding_for_new_joiners   *)
(* over a small table.                                                     *)
(***************************************************************************)
\* rows the workflow tables are made of: a new joiner, a junior who joined
\* before the window, and a senior at either location
WorkflowProfiles ==
  {<<"Data Engineer", "junior", "Bengaluru", Today0 - (DefaultWindow \div 2)>>,
   <<"Data Engineer", "junior", "Pune", Today0 - DefaultWindow - 1>>,
   <<"Data Engineer", "senior", "Bengaluru", Today0 - DefaultWindow>>,
   <<"Data Engineer", "senior", "Pune", Today0 - DefaultWindow>>}

\* the state before run_onboarding_for_new_joiners is called
Fresh ==
  /\ now = 0
  /\ pc = "start"
  /\ joined_since_days = DefaultWindow
  /\ new_joiners = <<>>
  /\ idx = 1
  /\ state = None
  /\ successes = 0
  /\ failures = <<>>
  /\ exc = None
  /\ result = None
  /\ world = [mail |-> <<>>, invites |-> <<>>, tasks |-> <<>>, events |-> <<>>]
  /\ calls = <<>>
  /\ steps = <<>>
  /\ q = None

Init ==
  /\ db \in TablesUpTo(MaxRows, WorkflowProfiles)
  /\ Fresh

Next ==
  \/ Start
  \/ StartStoreError
  \/ LoopInvoke
  \/ LoopSuccess
  \/ LoopExcept
  \/ Return
  \/ node_generate_email
  \/ node_generate_email_raises
  \/ node_send_email
  \/ node_send_email_raises
  \/ node_asana_task
  \/ node_asana_task_invite_raises
  \/ node_asana_task_create_raises
  \/ node_find_mentor
  \/ node_find_mentor_none
  \/ node_find_mentor_raises
  \/ node_schedule_intro_call
  \/ node_schedule_intro_call_raises

Spec == Init /\ [][Next]_vars


(***************************************************************************)
(* The query specification: the two query helpers called on every table    *)
(* of a few rows, on any day, with every window and every location.        *)
(***************************************************************************)
\* Data Engineers of both levels at every location and join date, and one
\* junior and one senior of another role
QueryProfiles ==
  ({"Data Engineer"} \X Levels \X Locations \X JoinDates)
    \cup {<<"Backend Engineer", "junior", "Bengaluru", Today0 - (DefaultWindow \div 2)>>,
          <<"Backend Engineer", "senior", "Pune", Today0 - DefaultWindow - 1>>}

\* the locations asked for: those of the table and one where nobody works
AskedLocations == Locations \cup {"Hyderabad"}

InitQuery ==
  /\ db \in TablesUpTo(QueryRows, QueryProfiles)
  /\ Fresh

CallNewJoiners ==
  /\ \E w \in Windows :
       q' = [fn |-> "find_new_joiners_data_engineers", arg |-> w, today |-> Date(now),
             out |-> find_new_joiners_data_engineers(db, Date(now), w)]
  /\ UNCHANGED <<db, now, pc, joined_since_days, new_joiners, idx, state, successes,
                 failures, exc, result, world, calls, steps>>

CallSeniorMentor ==
  /\ \E loc \in AskedLocations :
       \E mentor \in find_senior_mentor(db, loc) :
         q' = [fn |-> "find_senior_mentor", arg |-> loc, today |-> Date(now),
               out |-> mentor]
  /\ UNCHANGED <<db, now, pc, joined_since_days, new_joiners, idx, state, successes,
                 failures, exc, result, world, calls, steps>>

NextQuery ==
  \/ Tick
  \/ CallNewJoiners
  \/ CallSeniorMentor

SpecQuery == InitQuery /\ [][NextQuery]_vars


(***************************************************************************)
(* The clock specification: the same run on a smaller table, while the     *)
(* wall clock advances between any two steps.                              *)
(***************************************************************************)
\* rows the clock tables are made of: a new joiner and a senior at either location
ClockProfiles ==
  {<<"Data Engineer", "junior", "Bengaluru", Today0 - (DefaultWindow \div 2)>>,
   <<"Data Engineer", "senior", "Bengaluru", Today0 - DefaultWindow>>,
   <<"Data Engineer", "senior", "Pune", Today0 - DefaultWindow>>}

InitClock ==
  /\ db \in TablesUpTo(ClockRows, ClockProfiles)
  /\ Fresh

NextClock ==
  \/ Next
  \/ Tick

SpecClock == InitClock /\ [][NextClock]_vars

(***************************************************************************)
(* Vocabulary of the properties.                                           *)
(***************************************************************************)
\* the five steps in the order the design gives them
Chain == <<"generate_email", "send_email", "asana_task", "find_mentor",
           "schedule_intro_call">>

IsPrefix(s, t) == Len(s) <= Len(t) /\ \A k \in 1..Len(s) : s[k] = t[k]

\* the node executions of the i-th eligible employee, in the order they happened
StepsOf(i) == SelectSeq(steps, LAMBDA s : s.emp = i)

StepNames(i) == [k \in 1..Len(StepsOf(i)) |-> StepsOf(i)[k].step]

\* the node executions that ended with an exception, in the order they happened
RaisedSteps == SelectSeq(steps, LAMBDA s : s.outcome = "raised")

Eligible == 1..Len(new_joiners)

Seniors == {r \in RowsOf(db) : r.role = "Data Engineer" /\ r.level = "senior"}

(***************************************************************************)
(* C1. With three eligible employees, if message delivery fails for the    *)
(* second and every other collaborator call succeeds, the run returns      *)
(* successes = 2 and exactly one failure descriptor, that of the second.   *)
(***************************************************************************)
OnlyDeliveryFailsForSecond ==
  /\ \E k \in DOMAIN calls :
       calls[k].emp = 2 /\ calls[k].collab = "message_delivery" /\ calls[k].outcome # "ok"
  /\ \A k \in DOMAIN calls :
       calls[k].outcome # "ok" => calls[k].emp = 2 /\ calls[k].collab = "message_delivery"
  /\ Seniors # {}

C1_DeliveryFailureIsCounted ==
  (pc = "done" /\ Len(new_joiners) = 3 /\ OnlyDeliveryFailsForSecond)
    => /\ result.successes = 2
       /\ Len(result.failures) = 1
       /\ result.failures[1].email = new_joiners[2].email

(***************************************************************************)
(* C2. A step that fails, through a collaborator failure or a missing      *)
(* precondition, is the last step executed for that employee.              *)
(***************************************************************************)
C2_FailureHaltsEmployee ==
  \A k, l \in DOMAIN steps :
    (k < l /\ steps[k].emp = steps[l].emp) => steps[k].outcome = "ok"

(***************************************************************************)
(* C3. A run over a non-empty eligible list runs every eligible employee's *)
(* pipeline exactly once and returns processed = eligible = successes +    *)
(* number of failures, the failure descriptors (address and reason) being  *)
(* in the order the employees were processed.                              *)
(***************************************************************************)
C3_SummaryAccountsForEveryone ==
  (pc = "done" /\ new_joiners # <<>>)
    => /\ result.processed = Len(new_joiners)
       /\ result.processed = result.successes + Len(result.failures)
       /\ \A i \in Eligible :
            Cardinality({k \in DOMAIN steps :
                           steps[k].emp = i /\ steps[k].step = "generate_email"}) = 1
       /\ result.successes =
            Cardinality({i \in Eligible : \A k \in DOMAIN steps :
                           steps[k].emp = i => steps[k].outcome # "raised"})
       /\ Len(result.failures) = Len(RaisedSteps)
       /\ \A k \in DOMAIN result.failures :
            /\ result.failures[k].email = new_joiners[RaisedSteps[k].emp].email
            /\ result.failures[k].reason # <<>>
       /\ \A k, l \in DOMAIN RaisedSteps : k < l => RaisedSteps[k].emp < RaisedSteps[l].emp

C3_Witness ==
  /\ pc = "done"
  /\ Len(result.failures) >= 2
  /\ result.failures[1].reason # result.failures[2].reason
  /\ result.failures[1].email # result.failures[2].email

(***************************************************************************)
(* C4. When the eligibility query finds nobody, the run returns            *)
(* processed = 0, successes = 0, failures = [] and has executed no step    *)
(* and called no collaborator.                                             *)
(***************************************************************************)
C4_EmptyRunIsNoOp ==
  (pc = "done" /\ new_joiners = <<>>)
    => /\ result.processed = 0
       /\ result.successes = 0
       /\ result.failures = <<>>
       /\ steps = <<>>
       /\ calls = <<>>
       /\ world = [mail |-> <<>>, invites |-> <<>>, tasks |-> <<>>, events |-> <<>>]

C4_Witness ==
  /\ pc = "done"
  /\ new_joiners = <<>>
  /\ db # <<>>
  /\ result # None


(***************************************************************************)
(* C5. find_new_joiners_data_engineers(W) returns exactly the rows of the  *)
(* table with role "Data Engineer", level "junior" and a join date on or   *)
(* after today - W, the boundary date included, each once.                 *)
(***************************************************************************)
C5_EligibilityIsExact ==
  (q # None /\ q.fn = "find_new_joiners_data_engineers")
    => /\ \A r \in RowsOf(db) :
            (r \in RowsOf(q.out))
              <=> /\ r.role = "Data Engineer"
                  /\ r.level = "junior"
                  /\ r.date_joined >= q.today - q.arg
       /\ RowsOf(q.out) \subseteq RowsOf(db)
       /\ Len(q.out) = Cardinality(RowsOf(q.out))

C5_Witness ==
  /\ q # None
  /\ q.fn = "find_new_joiners_data_engineers"
  /\ \E r \in RowsOf(q.out) : r.date_joined = q.today - q.arg
  /\ \E r \in RowsOf(db) :
       r.role = "Data Engineer" /\ r.level = "junior" /\ r \notin RowsOf(q.out)

(***************************************************************************)
(* C6. find_senior_mentor(L) follows the two-level policy: if a senior     *)
(* Data Engineer works at L, the result is one at L of least join date     *)
(* among those at L; otherwise, if there is any senior Data Engineer, the  *)
(* result is one of least join date among all of them.                     *)
(***************************************************************************)
C6_MentorPolicy ==
  (q # None /\ q.fn = "find_senior_mentor")
    => LET local == {r \in Seniors : r.location = q.arg}
       IN /\ local # {}
               => /\ q.out \in local
                  /\ \A o \in local : q.out.date_joined <= o.date_joined
          /\ (local = {} /\ Seniors # {})
               => /\ q.out \in Seniors
                  /\ \A o \in Seniors : q.out.date_joined <= o.date_joined

C6_Witness ==
  /\ q # None
  /\ q.fn = "find_senior_mentor"
  /\ q.out # None
  /\ q.out.location = q.arg
  /\ \E o \in Seniors : o.date_joined < q.out.date_joined
  /\ \E o \in Seniors : o.location = q.arg /\ o.date_joined > q.out.date_joined

(***************************************************************************)
(* C7. With no senior Data Engineer in the table, an employee whose        *)
(* select-mentor step runs is recorded in the failures with a reason and   *)
(* gets no meeting, the run is not aborted, and every eligible employee's  *)
(* pipeline is still started.                                              *)
(***************************************************************************)
C7_NoMentorFailsThatEmployeeOnly ==
  Seniors = {}
    => /\ world.events = <<>>
       /\ \A k \in DOMAIN steps : steps[k].step # "schedule_intro_call"
       /\ \A k \in DOMAIN steps :
            steps[k].step = "find_mentor" => steps[k].outcome = "raised"
       /\ \A i \in Eligible :
            ((i < idx \/ pc = "done") /\ "find_mentor" \in RowsOf(StepNames(i)))
              => \E k \in DOMAIN failures :
                   /\ failures[k].email = new_joiners[i].email
                   /\ failures[k].reason # <<>>
       /\ pc = "error" => steps = <<>>
       /\ pc = "done"
            => /\ result.processed = Len(new_joiners)
               /\ result.failures = failures
               /\ \A i \in Eligible : StepNames(i) # <<>>

C7_Witness ==
  /\ Seniors = {}
  /\ pc = "done"
  /\ Len(new_joiners) >= 2
  /\ \A i \in Eligible : "find_mentor" \in RowsOf(StepNames(i))
  /\ \A k \in DOMAIN result.failures :
       result.failures[k].reason[1] = "No senior mentor available for"

(***************************************************************************)
(* C8. Handling a failure only appends a descriptor to the failures: what  *)
(* the external services hold (mail sent, invites, tasks, events) stays as *)
(* it was, for the failed employee and for the earlier ones; no step of    *)
(* the run ever removes an effect.                                         *)
(***************************************************************************)
C8_NoRollback ==
  [][/\ pc = "except"
          => /\ world' = world
             /\ successes' = successes
             /\ failures' = Append(failures, [email |-> emp.email, reason |-> exc])
      /\ IsPrefix(world.mail, world'.mail)
      /\ IsPrefix(world.invites, world'.invites)
      /\ IsPrefix(world.tasks, world'.tasks)
      /\ IsPrefix(world.events, world'.events)]_vars

C8_Witness ==
  /\ pc = "except"
  /\ idx = 2
  /\ world.events # <<>>
  /\ \E k \in DOMAIN world.mail : world.mail[k].to = emp.email
  /\ \E k \in DOMAIN world.invites : world.invites[k] = emp.email
  /\ \E k \in DOMAIN world.tasks : world.tasks[k].assignee = emp.email

(***************************************************************************)
(* C9. The steps executed for an employee form a prefix of the chain draft *)
(* message, deliver message, file task, select mentor, schedule meeting:   *)
(* in order, none skipped, none repeated, none after a step that raised,   *)
(* and none once the loop has moved past that employee.                    *)
(***************************************************************************)
C9_StepsFormPrefixOfChain ==
  /\ \A i \in Eligible : IsPrefix(StepNames(i), Chain)
  /\ \A k, l \in DOMAIN steps :
       k < l => /\ steps[k].emp <= steps[l].emp
                /\ steps[k].emp = steps[l].emp => steps[k].outcome # "raised"
  /\ \A k \in DOMAIN steps :
       /\ steps[k].emp \in Eligible
       /\ steps[k].emp <= idx
       /\ pc \in {"loop", "done"} => steps[k].emp < idx
  /\ pc \in {"END", "except"} => Len(StepsOf(idx)) > 0
  /\ pc = "END" => StepNames(idx) = Chain

C9_Witness ==
  /\ pc = "done"
  /\ \E i \in Eligible : StepNames(i) = Chain
  /\ \E i \in Eligible : Len(StepNames(i)) \in 2..4

(***************************************************************************)
(* C10. Every step that is started appends one log entry, whether it       *)
(* succeeds or fails: the log of the employee being processed has as many  *)
(* entries as steps were started for them.                                 *)
(***************************************************************************)
C10_EveryStartedStepIsLogged ==
  (state # None /\ pc \notin {"loop", "done"})
    => Len(state.logs) = Len(StepsOf(idx))

(***************************************************************************)
(* C11. The log of an employee starts empty; when the pipeline completes   *)
(* it holds exactly five entries, one per step, in step order (generated   *)
(* email, sent email, created task, selected mentor, scheduled call), with *)
(* timestamps that never decrease from one entry to the next; and no step  *)
(* removes or reorders entries: the log only grows at its end.             *)
(***************************************************************************)
\* the leading words of the entry each step writes, in step order
LogHeads == <<"Generated email for", "Sent welcome email to", "Created Asana task for",
              "Selected mentor", "Scheduled mentor call for">>

LogInOrder(logs) ==
  /\ Len(logs) <= Len(LogHeads)
  /\ \A k \in DOMAIN logs : logs[k].msg[1] = LogHeads[k]
  /\ \A k, l \in DOMAIN logs : k <= l => logs[k].ts <= logs[l].ts

C11_LogOrdering ==
  /\ [](state # None => /\ LogInOrder(state.logs)
                        /\ pc = EntryPoint => state.logs = <<>>
                        /\ pc = "END" => Len(state.logs) = Len(Chain))
  /\ [][(state # None /\ pc # "loop")
          => /\ state' # None
             /\ IsPrefix(state.logs, state'.logs)
             /\ Len(state'.logs) <= Len(state.logs) + 1]_vars

C11_Witness ==
  /\ pc = "END"
  /\ Len(state.logs) = Len(Chain)
  /\ state.logs[1].ts < state.logs[Len(Chain)].ts

(***************************************************************************)
(* C12. If the employee store is unavailable when the eligibility query is *)
(* made, the run ends with an error: no summary is returned, not even a    *)
(* partial one, and no pipeline step or collaborator has been invoked for  *)
(* any employee. A summary is returned only by a run whose eligibility     *)
(* query was answered, and it counts the rows the query yields.            *)
(***************************************************************************)
C12_StoreErrorAbortsRun ==
  /\ pc = "error"
       => /\ result = None
          /\ state = None
          /\ steps = <<>>
          /\ calls = <<>>
          /\ successes = 0
          /\ failures = <<>>
          /\ \A service \in DOMAIN world : world[service] = <<>>
  /\ result # None
       => /\ pc = "done"
          /\ new_joiners = find_new_joiners_data_engineers(db, Date(now), joined_since_days)
          /\ result.processed = Len(new_joiners)

C12_Witness ==
  /\ pc = "error"
  /\ result = None
  /\ find_new_joiners_data_engineers(db, Date(now), joined_since_days) # <<>>

(***************************************************************************)
(* C13. When the schedule step of an employee runs on date D, the event    *)
(* requested from the scheduler starts on D+7 at 10:00 and ends on D+7 at  *)
(* 11:00 in the timezone Asia/Kolkata, with exactly the employee and the   *)
(* selected mentor as attendees, and its request token is a function of    *)
(* the employee identifier and the date D+7 only: the same identifier and  *)
(* date give the same token whoever the mentor and whatever the other      *)
(* fields of the record, and two requests carry the same token only if     *)
(* they are for the same employee and the same date.                       *)
(***************************************************************************)
\* the calls in which an event was sent to the scheduler
SchedulerRequests ==
  {k \in DOMAIN calls : calls[k].collab = "scheduler" /\ calls[k].outcome # "raise"}

\* the employee record with the identifier of e and the other fields of row r
SameIdAs(e, r) == [r EXCEPT !.id = e.id]

C13_MeetingWindowAndToken ==
  /\ [][(pc = "schedule_intro_call" /\ pc' = "END")
          => LET r == calls'[Len(calls')].request
                 D == Date(now)
             IN /\ Len(calls') = Len(calls) + 1
                /\ r.start = [date |-> D + 7, hour |-> 10]
                /\ r.end = [date |-> D + 7, hour |-> 11]
                /\ r.timezone = "Asia/Kolkata"
                /\ r.attendees = <<state.employee.email, state.mentor.email>>
                /\ \A e2, m2 \in RowsOf(db) :
                     IntroCall(SameIdAs(state.employee, e2), m2, D).requestId = r.requestId]_vars
  /\ [](\A k, l \in SchedulerRequests :
          calls[k].request.requestId = calls[l].request.requestId
            <=> /\ new_joiners[calls[k].emp].id = new_joiners[calls[l].emp].id
                /\ calls[k].request.start.date = calls[l].request.start.date)

C13_Witness ==
  \E k, l \in SchedulerRequests :
    /\ k # l
    /\ calls[k].request.start.date = calls[l].request.start.date
    /\ calls[k].request.start.date > Date(0) + 7
    /\ calls[k].request.requestId # calls[l].request.requestId

Present(field) == field \in DOMAIN state

C15_FieldsPopulatedInStepOrder ==
  (state # None /\ pc \notin {"loop", "done"})
    => /\ Present("employee") /\ Present("logs")
       /\ state.employee = new_joiners[idx]
       /\ pc = EntryPoint => state = [employee |-> new_joiners[idx], logs |-> <<>>]
       /\ Present("calendar_event") => Present("mentor")
       /\ Present("mentor") => Present("asana_task")
       /\ Present("asana_task") => Present("email_result")
       /\ Present("email_result") => Present("email_body")
       /\ DOMAIN state \subseteq
            {"employee", "logs"} \cup {Populates(Chain[k]) : k \in DOMAIN Chain}
       /\ \A k \in DOMAIN Chain :
            pc = Chain[k]
              => /\ Reads(Chain[k]) \subseteq DOMAIN state
                 /\ \A l \in DOMAIN Chain :
                      /\ l < k => Present(Populates(Chain[l]))
                      /\ l >= k => ~Present(Populates(Chain[l]))
                      /\ l > k => Populates(Chain[l]) \notin Reads(Chain[k])
       /\ pc = "END" => \A k \in DOMAIN Chain : Present(Populates(Chain[k]))

C15_Witness ==
  /\ pc = "END"
  /\ idx > 1
  /\ state.employee = new_joiners[idx]
  /\ DOMAIN state = {"employee", "email_body", "email_result", "asana_task", "mentor",
                     "calendar_event", "logs"}

====
